---- MODULE Spec2Model ----
(***************************************************************************)
(* Session state machines of the Vril backend: the product create/edit     *)
(* pipeline (endpoints/product/router.py, services/product_pipeline.py,    *)
(* models/product_state.py) and the packaging panel-texture generator      *)
(* (endpoints/packaging/router.py, models/packaging_state.py).             *)
(*                                                                         *)
(* The Redis blobs are the variables product_state, product_status and     *)
(* packaging_state.  Timestamps (created_at, updated_at, generated_at) and *)
(* the wall-clock generation_started_at value are abstracted: the latter   *)
(* is "None" or "set".  Optional strings use "None"; an Optional record is *)
(* a sequence of length 0 or 1.                                            *)
(***************************************************************************)
EXTENDS Integers, Sequences, FiniteSets, TLC

VARIABLES
    product_state,      \* blob under PRODUCT_STATE_KEY
    product_status,     \* blob under PRODUCT_STATUS_KEY
    background_tasks,   \* product router: _background_tasks and each task's position
    response,           \* what the last request handler returned or raised
    packaging_state,    \* blob under PACKAGING_STATE_KEY
    panel_tasks,        \* packaging router: single-panel _generate tasks
    bulk_tasks,         \* packaging router: _generate_all tasks and their panel sub-tasks
    requests,           \* packaging requests served so far (bounds the model)
    handlers            \* start handlers of several processes between load and save

product_vars == <<product_state, product_status, background_tasks, handlers>>
packaging_vars == <<packaging_state, panel_tasks, bulk_tasks, requests>>
vars == <<product_state, product_status, background_tasks, response,
          packaging_state, panel_tasks, bulk_tasks, requests, handlers>>

None == "None"

(***************************************************************************)
(* Bounds of the model.                                                    *)
(***************************************************************************)
MaxTasks == 2          \* product task handles that can exist at once
MaxIterations == 2     \* start-edit is not issued once the log is this long
MaxProcesses == 2      \* server processes that share the store
MaxStarts == 1         \* start requests one of these processes serves

TaskIds == 1..MaxTasks
Processes == 1..MaxProcesses

CreatePrompts == {"blue speaker", "red bottle"}
EditPrompts == {"add label"}
\* image_count of ProductCreateRequest (1..6): the two smallest
ImageCounts == {1, 2}

\* What the image capability can hand back for a request of `count` images:
\* generate_product_images_sync keeps the valid images, at most `count`.
GeminiResults(count) ==
    {r \in {<<>>, <<"img_a">>, <<"img_b", "img_a">>} : Len(r) <= count}

\* TrellisArtifacts.model_validate(trellis_output): the bundles reconstruction returns.
TrellisArtifacts(model_file, no_background_images) ==
    [model_file |-> model_file, no_background_images |-> no_background_images]

TrellisOutputs ==
    {TrellisArtifacts("m1", <<>>), TrellisArtifacts("m2", <<"nobg">>)}

\* Percentages _handle_queue_update reports: IN_QUEUE, no status, IN_PROGRESS.
TrellisProgressValues == {50, 60, 70}

GeminiErrorMessage == "Gemini client not initialized for product images"
NoImagesMessage == "Gemini image pipeline returned no images"
TrellisErrorMessage == "Failed to generate 3D asset"

(***************************************************************************)
(* models/product_state.py                                                 *)
(***************************************************************************)
ProductState ==
    [prompt |-> None, latest_instruction |-> None, mode |-> "idle",
     status |-> "idle", message |-> None, in_progress |-> FALSE,
     generation_started_at |-> None, image_count |-> 3, images |-> <<>>,
     trellis_output |-> <<>>, iterations |-> <<>>, last_error |-> None]

ProductStatus(status, progress, message) ==
    [status |-> status, progress |-> progress, message |-> message,
     error |-> None, model_file |-> None, preview_image |-> None]

ProductIteration_no_images(type, prompt, images, trellis_output) ==
    [type |-> type, prompt |-> prompt, images |-> <<>>,
     trellis_output |-> trellis_output]

ProductIteration(type, prompt, images, trellis_output) ==
    [type |-> type, prompt |-> prompt, images |-> images,
     trellis_output |-> trellis_output]

mark_error_keeps_in_progress(self, error_message) ==
    [self EXCEPT !.status = "error", !.message = error_message,
                 !.last_error = error_message]

mark_error(self, error_message) ==
    [self EXCEPT !.status = "error", !.message = error_message,
                 !.last_error = error_message, !.in_progress = FALSE]

mark_complete_keeps_in_progress(self, message) ==
    [self EXCEPT !.status = "complete", !.message = message,
                 !.generation_started_at = None]

mark_complete(self, message) ==
    [self EXCEPT !.status = "complete", !.message = message,
                 !.in_progress = FALSE, !.generation_started_at = None]

mark_progress_keeps_status(self, status, message) ==
    [self EXCEPT !.message = message]

mark_progress(self, status, message) ==
    [self EXCEPT !.status = status, !.message = message]

\* The store always answers: an absent key reads as the default record.
get_product_state == product_state
get_product_status == product_status

(***************************************************************************)
(* services/product_pipeline.py                                            *)
(***************************************************************************)
\* payload after _update_status(status) applied to the stored payload
_update_status(payload, status) ==
    [status |-> status.status, progress |-> status.progress,
     message |-> status.message, error |-> status.error,
     model_file |-> IF status.model_file # None THEN status.model_file
                    ELSE payload.model_file,
     preview_image |-> IF status.preview_image # None THEN status.preview_image
                       ELSE payload.preview_image]

_determine_preview_image(state) ==
    IF state.trellis_output # <<>> /\ state.trellis_output[1].no_background_images # <<>>
    THEN state.trellis_output[1].no_background_images[1]
    ELSE IF state.images # <<>> THEN state.images[1] ELSE None

(***************************************************************************)
(* Background tasks of the product router.  pc:                            *)
(*   "none"              no such task                                      *)
(*   "created"           asyncio.create_task done, coroutine not yet run   *)
(*   "generating_images" suspended in generate_product_images              *)
(*   "generating_model"  suspended in _generate_trellis_model              *)
(* A task that finishes leaves the set at once: its done-callback           *)
(* (_background_tasks.discard, queued by call_soon) runs before any        *)
(* request handler can.                                                    *)
(* `state` is the ProductState object the coroutine holds in memory.       *)
(***************************************************************************)
NoTask ==
    [pc |-> "none", kind |-> "create", instruction |-> None, image_count |-> 1,
     state |-> ProductState, reference_images |-> <<>>]

NewTask(kind, instruction, image_count) ==
    [NoTask EXCEPT !.pc = "created", !.kind = kind, !.instruction = instruction,
                   !.image_count = image_count]

\* task.done() is false
Unfinished(t) == background_tasks[t].pc \in {"created", "generating_images", "generating_model"}

FreeTaskIds == {t \in TaskIds : background_tasks[t].pc = "none"}

\* _track_background_task: the handle joins _background_tasks (and leaves it when done)
_track_background_task(task) ==
    LET t == CHOOSE u \in FreeTaskIds : \A v \in FreeTaskIds : u <= v
    IN [background_tasks EXCEPT ![t] = task]

(***************************************************************************)
(* endpoints/product/router.py                                             *)
(***************************************************************************)
\* The answer of a handler: the endpoint, the HTTP status, and the HTTPException
\* detail or the kind of body returned.
Response(request, code, detail) == [request |-> request, code |-> code, detail |-> detail]

Busy409(request) == Response(request, 409, "Generation already running")
NoBase400 == Response("start_edit", 400, "No base product available to edit")
RewindBusy409 == Response("rewind_product", 409, "Cannot rewind while generation is running")
InvalidIndex400 == Response("rewind_product", 400, "Invalid iteration index")
Ok(request, detail) == Response(request, 200, detail)

_ensure_not_busy_never_raises(state) == FALSE

\* TRUE when _ensure_not_busy raises
_ensure_not_busy(state) == state.in_progress

\* start_create, lines 49-71, on the session `state` it loaded
StartCreateFrom(state, prompt, image_count) ==
    IF _ensure_not_busy(state)
    THEN /\ response' = Busy409("start_create")
         /\ UNCHANGED <<product_state, product_status, background_tasks>>
    ELSE /\ FreeTaskIds # {}
         /\ product_state' =
                [state EXCEPT !.prompt = prompt, !.latest_instruction = prompt,
                              !.mode = "create", !.status = "pending",
                              !.message = "Preparing product generation",
                              !.in_progress = TRUE, !.generation_started_at = "set",
                              !.image_count = image_count, !.images = <<>>,
                              !.trellis_output = <<>>, !.iterations = <<>>,
                              !.last_error = None]
         /\ product_status' = ProductStatus("pending", 0, "Preparing product generation")
         /\ background_tasks' = _track_background_task(NewTask("create", prompt, image_count))
         /\ response' = Ok("start_create", "pending")

\* within one process nothing runs between the load and the save
start_create(prompt, image_count) ==
    StartCreateFrom(get_product_state, prompt, image_count)

NoBaseProduct_prompt_only(state) == state.prompt = None

\* TRUE when start_edit raises its 400
NoBaseProduct(state) == state.prompt = None \/ state.images = <<>>

\* start_edit, lines 76-97, on the session `state` it loaded
StartEditFrom(state, prompt) ==
    IF _ensure_not_busy(state)
    THEN /\ response' = Busy409("start_edit")
         /\ UNCHANGED <<product_state, product_status, background_tasks>>
    ELSE IF NoBaseProduct(state)
    THEN /\ response' = NoBase400
         /\ UNCHANGED <<product_state, product_status, background_tasks>>
    ELSE /\ FreeTaskIds # {}
         /\ Len(state.iterations) < MaxIterations
         /\ product_state' =
                [state EXCEPT !.latest_instruction = prompt, !.mode = "edit",
                              !.status = "pending", !.message = "Preparing edit request",
                              !.in_progress = TRUE, !.generation_started_at = "set"]
         /\ product_status' = ProductStatus("pending", 0, "Preparing edit request")
         /\ background_tasks' = _track_background_task(NewTask("edit", prompt, 1))
         /\ response' = Ok("start_edit", "pending")

start_edit(prompt) == StartEditFrom(get_product_state, prompt)

\* GET /product and GET /product/status: the body is the blob itself
fetch_product_state ==
    /\ response' = Ok("fetch_product_state", "state")
    /\ UNCHANGED <<product_state, product_status, background_tasks>>

fetch_product_status ==
    /\ response' = Ok("fetch_product_status", "status")
    /\ UNCHANGED <<product_state, product_status, background_tasks>>

has_active_tasks_never == FALSE

has_active_tasks == \E t \in TaskIds : Unfinished(t)

\* TRUE when recover_state takes its recovering branch
Stale(state) == state.in_progress /\ ~has_active_tasks

Recovered_keeps_status(state) ==
    [state EXCEPT !.in_progress = FALSE,
                  !.message = "Recovered from interrupted generation"]

Recovered_keeps_in_progress(state) ==
    [state EXCEPT !.status = "idle",
                  !.message = "Recovered from interrupted generation"]

\* the assignments of the recovering branch
Recovered(state) ==
    [state EXCEPT !.in_progress = FALSE, !.status = "idle",
                  !.message = "Recovered from interrupted generation"]

recover_state ==
    LET state == get_product_state IN
    IF Stale(state)
    THEN /\ product_state' = Recovered(state)
         /\ product_status' =
                ProductStatus("idle", 0, "Recovered from interrupted generation")
         /\ response' = Ok("recover_state", "recovered")
         /\ UNCHANGED background_tasks
    ELSE /\ response' = Ok("recover_state", "not recovered")
         /\ UNCHANGED <<product_state, product_status, background_tasks>>

RewindBusy_never(state) == FALSE

\* TRUE when rewind_product raises its 409
RewindBusy(state) == state.in_progress

\* TRUE when rewind_product raises its 400
InvalidIndex(state, iteration_index) ==
    iteration_index < 0 \/ iteration_index >= Len(state.iterations)

Truncate_suffix(iterations, iteration_index) ==
    SubSeq(iterations, iteration_index + 1, Len(iterations))

Truncate_keeps_all(iterations, iteration_index) == iterations

\* state.iterations[: iteration_index + 1]
Truncate(iterations, iteration_index) == SubSeq(iterations, 1, iteration_index + 1)

rewind_product(iteration_index) ==
    LET state == get_product_state IN
    IF RewindBusy(state)
    THEN /\ response' = RewindBusy409
         /\ UNCHANGED <<product_state, product_status, background_tasks>>
    ELSE IF InvalidIndex(state, iteration_index)
    THEN /\ response' = InvalidIndex400
         /\ UNCHANGED <<product_state, product_status, background_tasks>>
    ELSE LET target_iteration == state.iterations[iteration_index + 1]
             out == target_iteration.trellis_output
         IN /\ product_state' =
                   [state EXCEPT
                      !.iterations = Truncate(state.iterations, iteration_index),
                      !.images = target_iteration.images,
                      !.trellis_output = out,
                      !.latest_instruction = target_iteration.prompt,
                      !.prompt = IF target_iteration.type = "create"
                                 THEN target_iteration.prompt ELSE @,
                      !.mode = target_iteration.type,
                      !.status = "idle",
                      !.message = "Rewound to previous version",
                      !.in_progress = FALSE,
                      !.last_error = None]
            /\ product_status' =
                   [ProductStatus("idle", 0, "Rewound to previous version") EXCEPT
                      !.model_file = IF out # <<>> THEN out[1].model_file ELSE None,
                      !.preview_image =
                          IF out # <<>> /\ out[1].no_background_images # <<>>
                          THEN out[1].no_background_images[1] ELSE None]
            /\ response' = Ok("rewind_product", "rewound")
            /\ UNCHANGED background_tasks

ReferenceImages_none(state, mode) == <<>>

\* _execute_flow, line 77: the reference_images argument (None reads as <<>>)
ReferenceImages(state, mode) == IF mode = "edit" THEN state.images ELSE <<>>

(***************************************************************************)
(* ProductPipelineService: one action per stretch of the coroutine between *)
(* two suspension points.                                                  *)
(***************************************************************************)
\* _execute_flow, lines 66-83: up to the await of generate_product_images
ExecuteFlowStart(t, state0, mode) ==
    LET state == mark_progress([state0 EXCEPT !.in_progress = TRUE],
                               "generating_images", "Generating concept images")
    IN /\ product_state' = state
       /\ product_status' =
              _update_status(get_product_status,
                  ProductStatus("generating_images", 10, "Generating concept images"))
       /\ background_tasks' =
              [background_tasks EXCEPT
                 ![t].pc = "generating_images",
                 ![t].state = state,
                 ![t].reference_images = ReferenceImages(state, mode)]

run_create(t) ==
    /\ background_tasks[t].pc = "created"
    /\ background_tasks[t].kind = "create"
    /\ LET task == background_tasks[t]
           state == [get_product_state EXCEPT !.prompt = task.instruction,
                                              !.mode = "create",
                                              !.image_count = task.image_count]
       IN ExecuteFlowStart(t, state, "create")
    /\ UNCHANGED response

EditState_sets_prompt(state, instruction) ==
    [state EXCEPT !.mode = "edit", !.latest_instruction = instruction,
                  !.prompt = instruction]

\* run_edit, lines 59-60: the assignments before _execute_flow
EditState(state, instruction) ==
    [state EXCEPT !.mode = "edit", !.latest_instruction = instruction]

run_edit(t) ==
    /\ background_tasks[t].pc = "created"
    /\ background_tasks[t].kind = "edit"
    /\ LET task == background_tasks[t]
           state == get_product_state
       IN IF state.prompt = None
          THEN \* RuntimeError raised outside _execute_flow's try: the task ends
               /\ background_tasks' = [background_tasks EXCEPT ![t] = NoTask]
               /\ UNCHANGED <<product_state, product_status>>
          ELSE ExecuteFlowStart(t, EditState(state, task.instruction), "edit")
    /\ UNCHANGED response

\* _execute_flow, lines 137-148: the except branch, after which the task is done
ExecuteFlowExcept(t, exc) ==
    LET state == mark_error(background_tasks[t].state, exc)
    IN /\ product_state' = state
       /\ product_status' =
              _update_status(get_product_status,
                  [ProductStatus("error", 0, "Pipeline failed") EXCEPT !.error = exc])
       /\ background_tasks' = [background_tasks EXCEPT ![t] = NoTask]

\* _execute_flow, lines 85-102: generate_product_images returned `images`
ImagesReturned(t, images) ==
    /\ background_tasks[t].pc = "generating_images"
    /\ IF images = <<>>
       THEN ExecuteFlowExcept(t, NoImagesMessage)
       ELSE LET state == mark_progress([background_tasks[t].state EXCEPT !.images = images],
                                       "generating_model", "Generating 3D model with Trellis")
            IN /\ product_state' = state
               /\ product_status' =
                      _update_status(get_product_status,
                          ProductStatus("generating_model", 45,
                                        "Generating 3D model with Trellis"))
               /\ background_tasks' = [background_tasks EXCEPT
                                         ![t].pc = "generating_model",
                                         ![t].state = state]
    /\ UNCHANGED response

\* generate_product_images raised
ImagesRaised(t) ==
    /\ background_tasks[t].pc = "generating_images"
    /\ ExecuteFlowExcept(t, GeminiErrorMessage)
    /\ UNCHANGED response

\* _generate_trellis_model.progress_callback, called by _handle_queue_update
progress_callback(t, progress) ==
    /\ background_tasks[t].pc = "generating_model"
    /\ product_status' =
           _update_status(get_product_status,
               ProductStatus("generating_model", progress, "Trellis"))
    /\ UNCHANGED <<product_state, background_tasks, response>>

\* _execute_flow, lines 104-136: reconstruction returned `artifacts`
TrellisReturned(t, artifacts) ==
    /\ background_tasks[t].pc = "generating_model"
    /\ LET task == background_tasks[t]
           iteration == ProductIteration(task.kind, task.instruction,
                                         task.state.images, <<artifacts>>)
           state == mark_complete(
                        [task.state EXCEPT !.trellis_output = <<artifacts>>,
                                           !.iterations = Append(@, iteration)],
                        "3D asset generated")
       IN /\ product_state' = state
          /\ product_status' =
                 _update_status(get_product_status,
                     [ProductStatus("complete", 100, "3D asset generated") EXCEPT
                        !.model_file = artifacts.model_file,
                        !.preview_image = _determine_preview_image(state)])
          /\ background_tasks' = [background_tasks EXCEPT ![t] = NoTask]
    /\ UNCHANGED response

\* reconstruction raised (generate_3d_asset failed, or fal_client is missing)
TrellisRaised(t) ==
    /\ background_tasks[t].pc = "generating_model"
    /\ ExecuteFlowExcept(t, TrellisErrorMessage)
    /\ UNCHANGED response

\* A new process: `_background_tasks: Set[asyncio.Task] = set()`, the blobs stay in Redis
ProcessRestart ==
    /\ \E t \in TaskIds : background_tasks[t].pc # "none"
    /\ background_tasks' = [t \in TaskIds |-> NoTask]
    /\ UNCHANGED <<product_state, product_status, response>>

NoResponse == Response(None, 0, None)

\* A start handler of process p: "idle", or "loaded" once get_product_state
\* has returned `state` and before anything is saved.
NoHandler ==
    [pc |-> "idle", request |-> None, prompt |-> None, image_count |-> 1,
     state |-> ProductState, served |-> 0]

ProductInit ==
    /\ product_state = ProductState
    /\ product_status = ProductStatus("idle", 0, None)
    /\ background_tasks = [t \in TaskIds |-> NoTask]
    /\ response = NoResponse
    /\ handlers = [p \in Processes |-> NoHandler]

ProductNext ==
    \/ \E prompt \in CreatePrompts, image_count \in ImageCounts :
          start_create(prompt, image_count) /\ UNCHANGED <<packaging_vars, handlers>>
    \/ \E prompt \in EditPrompts : start_edit(prompt) /\ UNCHANGED <<packaging_vars, handlers>>
    \/ fetch_product_state /\ UNCHANGED <<packaging_vars, handlers>>
    \/ fetch_product_status /\ UNCHANGED <<packaging_vars, handlers>>
    \/ recover_state /\ UNCHANGED <<packaging_vars, handlers>>
    \/ \E iteration_index \in -1..MaxIterations :
          rewind_product(iteration_index) /\ UNCHANGED <<packaging_vars, handlers>>
    \/ \E t \in TaskIds : run_create(t) /\ UNCHANGED <<packaging_vars, handlers>>
    \/ \E t \in TaskIds : run_edit(t) /\ UNCHANGED <<packaging_vars, handlers>>
    \/ \E t \in TaskIds : \E images \in GeminiResults(background_tasks[t].state.image_count) :
          ImagesReturned(t, images) /\ UNCHANGED <<packaging_vars, handlers>>
    \/ \E t \in TaskIds : ImagesRaised(t) /\ UNCHANGED <<packaging_vars, handlers>>
    \/ \E t \in TaskIds : \E progress \in TrellisProgressValues :
          progress_callback(t, progress) /\ UNCHANGED <<packaging_vars, handlers>>
    \/ \E t \in TaskIds : \E artifacts \in TrellisOutputs :
          TrellisReturned(t, artifacts) /\ UNCHANGED <<packaging_vars, handlers>>
    \/ \E t \in TaskIds : TrellisRaised(t) /\ UNCHANGED <<packaging_vars, handlers>>
    \/ ProcessRestart /\ UNCHANGED <<packaging_vars, handlers>>
(***************************************************************************)
(* models/packaging_state.py.  A Python dict is a function whose DOMAIN is *)
(* the set of keys present.                                                *)
(***************************************************************************)
MaxPanelTasks == 1     \* single-panel _generate tasks that can exist at once
MaxBulkTasks == 1      \* _generate_all tasks that can exist at once
MaxRequests == 2       \* packaging requests served in one behaviour

PanelTaskIds == 1..MaxPanelTasks
BulkTaskIds == 1..MaxBulkTasks

PackageTypes == {"box", "cylinder"}
PanelIds == {"front", "back"}
\* panel_ids of a bulk request: a set of panels, in request order
PanelIdLists == {<<"front">>, <<"front", "back">>}
\* what the image capability can return for one panel
TextureUrls == {"tex_a", "tex_b"}
\* reference_mockup of BulkPanelGenerateRequest (Optional[str])
ReferenceMockups == {None, "ref_img"}
\* what generate_product_images can return for the phase-1 mockup
MockupResults == {<<>>, <<"mockup">>}

EmptyDict == [k \in {} |-> None]
DictSet(d, key, value) == [k \in DOMAIN d \cup {key} |-> IF k = key THEN value ELSE d[k]]
DictDel(d, key) == [k \in DOMAIN d \ {key} |-> d[k]]
\* d.update(new)
DictUpdate(d, new) == [k \in DOMAIN d \cup DOMAIN new |-> IF k \in DOMAIN new THEN new[k] ELSE d[k]]

Dimensions(width, height, depth) == [width |-> width, height |-> height, depth |-> depth]

_default_box_dimensions == Dimensions(100, 150, 100)
_default_cylinder_dimensions == Dimensions(80, 150, 80)

\* `dimensions` of UpdateDimensionsRequest, an unvalidated dict
DimensionsInputs == {Dimensions(50, 60, 70), [width |-> 50], Dimensions(0, 60, -70)}
\* package_dimensions of the generate requests as the client sends them
RequestDimensions(package_type) ==
    IF package_type = "cylinder" THEN _default_cylinder_dimensions
    ELSE _default_box_dimensions

ShapeState(dimensions) == [dimensions |-> dimensions, panel_textures |-> EmptyDict]

PanelTexture(panel_id, texture_url) == [panel_id |-> panel_id, texture_url |-> texture_url]

PackagingState ==
    [current_package_type |-> "box",
     box_state |-> ShapeState(_default_box_dimensions),
     cylinder_state |-> ShapeState(_default_cylinder_dimensions),
     in_progress |-> FALSE, generating_panel |-> None, generating_panels |-> <<>>,
     bulk_generation_in_progress |-> FALSE, last_error |-> None]

\* the shape-state the convenience accessors redirect to
CurrentShape(self) ==
    IF self.current_package_type = "cylinder" THEN "cylinder_state" ELSE "box_state"

package_dimensions(self) == self[CurrentShape(self)].dimensions

set_package_dimensions(self, value) ==
    [self EXCEPT ![CurrentShape(self)].dimensions = value]

panel_textures(self) == self[CurrentShape(self)].panel_textures

set_panel_textures(self, value) ==
    [self EXCEPT ![CurrentShape(self)].panel_textures = value]

\* Optional[PanelTexture]: <<>> or <<texture>>
get_panel_texture(self, panel_id) ==
    IF panel_id \in DOMAIN panel_textures(self)
    THEN <<panel_textures(self)[panel_id]>> ELSE <<>>

set_panel_texture(self, panel_id, texture) ==
    [self EXCEPT ![CurrentShape(self)].panel_textures = DictSet(@, panel_id, texture)]

packaging_mark_error_keeps_panel(self, error_message) ==
    [self EXCEPT !.last_error = error_message, !.in_progress = FALSE,
                 !.bulk_generation_in_progress = FALSE,
                 !.generating_panels = <<>>]

packaging_mark_error_keeps_in_progress(self, error_message) ==
    [self EXCEPT !.last_error = error_message,
                 !.generating_panel = None, !.bulk_generation_in_progress = FALSE,
                 !.generating_panels = <<>>]

packaging_mark_error(self, error_message) ==
    [self EXCEPT !.last_error = error_message, !.in_progress = FALSE,
                 !.generating_panel = None, !.bulk_generation_in_progress = FALSE,
                 !.generating_panels = <<>>]

atomic_update_textures_replaces(self, new_textures, replace) ==
    set_panel_textures(self, new_textures)

atomic_update_textures(self, new_textures, replace) ==
    IF replace THEN set_panel_textures(self, new_textures)
    ELSE set_panel_textures(self, DictUpdate(panel_textures(self), new_textures))

\* every stored value is a number, so only the keys decide
has_valid_dimensions(dims) == {"width", "height", "depth"} \subseteq DOMAIN dims

ensure_valid_dimensions(self) ==
    [self EXCEPT
       !.box_state.dimensions =
           IF has_valid_dimensions(@) THEN @ ELSE _default_box_dimensions,
       !.cylinder_state.dimensions =
           IF has_valid_dimensions(@) THEN @ ELSE _default_cylinder_dimensions]

get_packaging_state == ensure_valid_dimensions(packaging_state)

clear_packaging_state == PackagingState

(***************************************************************************)
(* endpoints/packaging/router.py.  No handler of this router checks        *)
(* in_progress before it starts.                                           *)
(***************************************************************************)
NoImageMessage ==
    "Texture generation returned no image - Gemini API may have failed or returned empty result"
PanelExceptionMessage == "GeminiError: image generation failed"

\* ', '.join(failed_panels)
RECURSIVE Join(_)
Join(panels) ==
    IF panels = <<>> THEN ""
    ELSE IF Len(panels) = 1 THEN panels[1]
    ELSE panels[1] \o ", " \o Join(Tail(panels))

BulkErrorMessage(succeeded_count, total_count, failed_panels) ==
    "Generated " \o ToString(succeeded_count) \o "/" \o ToString(total_count)
        \o " textures. Failed: " \o Join(failed_panels) \o " (old textures retained)"

\* A single-panel _generate task: "none", or "generating" while it is suspended
\* in panel_generation_service.generate_panel_texture.
NoPanelTask == [pc |-> "none", panel_id |-> None, package_type |-> None]

FreePanelTaskIds == {t \in PanelTaskIds : panel_tasks[t].pc = "none"}

generate_panel_texture(panel_id, package_type, request_dimensions) ==
    LET state == get_packaging_state
        saved == [set_package_dimensions([state EXCEPT !.current_package_type = package_type],
                                         request_dimensions)
                     EXCEPT !.in_progress = TRUE, !.generating_panel = panel_id,
                            !.last_error = None]
        t == CHOOSE u \in FreePanelTaskIds : \A v \in FreePanelTaskIds : u <= v
    IN /\ FreePanelTaskIds # {}
       /\ packaging_state' = saved
       /\ panel_tasks' =
              [panel_tasks EXCEPT ![t] =
                  [pc |-> "generating", panel_id |-> panel_id,
                   package_type |-> package_type]]
       /\ response' = Ok("generate_panel_texture", "generating")
       /\ UNCHANGED bulk_tasks

\* _generate, lines 84-99: the capability returned texture_url
PanelTextureReturned(t, texture_url) ==
    /\ panel_tasks[t].pc = "generating"
    /\ LET current_state == get_packaging_state
           panel_id == panel_tasks[t].panel_id
       IN packaging_state' =
              [set_panel_texture(current_state, panel_id, PanelTexture(panel_id, texture_url))
                  EXCEPT !.in_progress = FALSE, !.generating_panel = None,
                         !.last_error = None]
    /\ panel_tasks' = [panel_tasks EXCEPT ![t] = NoPanelTask]
    /\ UNCHANGED <<bulk_tasks, response>>

\* _generate, lines 100-111: the capability returned no image, or raised
PanelTextureFailed(t, error_message) ==
    /\ panel_tasks[t].pc = "generating"
    /\ packaging_state' = packaging_mark_error(get_packaging_state, error_message)
    /\ panel_tasks' = [panel_tasks EXCEPT ![t] = NoPanelTask]
    /\ UNCHANGED <<bulk_tasks, response>>

(***************************************************************************)
(* A _generate_all task.  pc: "none"; "phase1" while it awaits the mockup; *)
(* "phase2" while it awaits asyncio.gather.  panels[k] is the generate_panel*)
(* sub-task of panel_ids[k]: "generating" until the capability answers,    *)
(* then "done" with its texture_url (None for a failure).  The closure     *)
(* keeps the handler's `state` object as it was saved when the request was *)
(* accepted and reads from it the textures of the requested panels only:   *)
(* state_textures[k] is state.get_panel_texture(panel_ids[k]).             *)
(***************************************************************************)
NoBulkTask ==
    [pc |-> "none", panel_ids |-> <<>>, state_textures |-> <<>>,
     reference_mockup |-> None, panels |-> <<>>]

\* state.get_panel_texture(pid) for pid in panel_ids
TexturesOf(state, panel_ids) ==
    [k \in 1..Len(panel_ids) |-> get_panel_texture(state, panel_ids[k])]

FreeBulkTaskIds == {b \in BulkTaskIds : bulk_tasks[b].pc = "none"}

generate_all_panels(panel_ids, package_type, request_dimensions, reference_mockup) ==
    LET state == get_packaging_state
        saved == [set_package_dimensions([state EXCEPT !.current_package_type = package_type],
                                         request_dimensions)
                     EXCEPT !.bulk_generation_in_progress = TRUE,
                            !.generating_panels = panel_ids,
                            !.last_error = None]
        b == CHOOSE u \in FreeBulkTaskIds : \A v \in FreeBulkTaskIds : u <= v
    IN /\ FreeBulkTaskIds # {}
       /\ packaging_state' = saved
       /\ bulk_tasks' =
              [bulk_tasks EXCEPT ![b] =
                  [pc |-> "phase1", panel_ids |-> panel_ids,
                   state_textures |-> TexturesOf(saved, panel_ids),
                   reference_mockup |-> reference_mockup,
                   panels |-> <<>>]]
       /\ response' = Ok("generate_all_panels", "generating")
       /\ UNCHANGED panel_tasks

\* generate_panel, lines 237-239, run for each panel in request order: the
\* sub-tasks that gather creates run back to back up to their first await
RECURSIVE StartPanels(_, _)
StartPanels(stored, panel_ids) ==
    IF panel_ids = <<>> THEN stored
    ELSE StartPanels([ensure_valid_dimensions(stored) EXCEPT
                         !.generating_panel = Head(panel_ids)],
                     Tail(panel_ids))

PanelCall_other_reference(master_mockup_url) ==
    [pc |-> "generating", texture_url |-> None,
     reference_mockup |-> "tex_a", old_texture_url |-> None]

\* generate_panel, lines 241-251: the call of generate_panel_texture for one
\* panel, suspended in the capability, with the references it was given
PanelCall(master_mockup_url) ==
    [pc |-> "generating", texture_url |-> None,
     reference_mockup |-> master_mockup_url, old_texture_url |-> None]

\* generate_panel, lines 253-264: the call has returned `texture_url` (None
\* when it failed); its arguments are gone with it
PanelResult(texture_url) ==
    [pc |-> "done", texture_url |-> texture_url,
     reference_mockup |-> None, old_texture_url |-> None]

\* _generate_all, lines 231-267: phase 2 starts with the master reference
\* that phase 1 left; gather creates one generate_panel sub-task per panel id
PhaseTwoStart(b, master_mockup_url) ==
    LET task == bulk_tasks[b]
    IN /\ bulk_tasks' =
              [bulk_tasks EXCEPT
                 ![b].pc = "phase2",
                 \* request.reference_mockup is not read again after phase 1
                 ![b].reference_mockup = None,
                 ![b].panels = [k \in 1..Len(task.panel_ids) |->
                                   PanelCall(master_mockup_url)]]
       /\ packaging_state' = StartPanels(packaging_state, task.panel_ids)

\* _generate_all, lines 211-224: generate_product_images returned
\* `mockup_images` in phase 1; an empty result falls back to the request's
\* reference_mockup and does not abort the batch
MockupGenerated(b, mockup_images) ==
    /\ bulk_tasks[b].pc = "phase1"
    /\ PhaseTwoStart(b, IF mockup_images = <<>>
                        THEN bulk_tasks[b].reference_mockup
                        ELSE mockup_images[1])
    /\ UNCHANGED <<panel_tasks, response>>

\* _generate_all, lines 226-228: phase 1 raised; same fallback
MockupRaised(b) ==
    /\ bulk_tasks[b].pc = "phase1"
    /\ PhaseTwoStart(b, bulk_tasks[b].reference_mockup)
    /\ UNCHANGED <<panel_tasks, response>>

PanelFinished_installs(stored, panel_id, texture_url) ==
    LET current_state == ensure_valid_dimensions(stored)
    IN set_panel_texture(
           [current_state EXCEPT
              !.generating_panels = SelectSeq(@, LAMBDA p : p # panel_id)],
           panel_id, PanelTexture(panel_id, texture_url))

\* generate_panel, lines 253-258: what the store holds after a sub-task got
\* its texture: the session is re-read, and saved only if the panel was
\* still listed in generating_panels
PanelFinished(stored, panel_id, texture_url) ==
    LET current_state == ensure_valid_dimensions(stored)
    IN IF \E i \in 1..Len(current_state.generating_panels) :
             current_state.generating_panels[i] = panel_id
       THEN [current_state EXCEPT
               !.generating_panels = SelectSeq(@, LAMBDA p : p # panel_id)]
       ELSE stored

\* generate_panel, lines 253-259: the capability returned texture_url
BulkPanelReturned(b, k, texture_url) ==
    /\ bulk_tasks[b].pc = "phase2"
    /\ k \in 1..Len(bulk_tasks[b].panels)
    /\ bulk_tasks[b].panels[k].pc = "generating"
    /\ packaging_state' =
           PanelFinished(packaging_state, bulk_tasks[b].panel_ids[k], texture_url)
    /\ bulk_tasks' = [bulk_tasks EXCEPT
                        ![b].panels[k] = PanelResult(texture_url)]
    /\ UNCHANGED <<panel_tasks, response>>

\* generate_panel, lines 260-264: the capability returned no image, or raised
BulkPanelFailed(b, k) ==
    /\ bulk_tasks[b].pc = "phase2"
    /\ k \in 1..Len(bulk_tasks[b].panels)
    /\ bulk_tasks[b].panels[k].pc = "generating"
    /\ bulk_tasks' = [bulk_tasks EXCEPT ![b].panels[k] = PanelResult(None)]
    /\ UNCHANGED <<packaging_state, panel_tasks, response>>

\* results of gather, lines 270-284
Succeeded(task) == {k \in 1..Len(task.panels) : task.panels[k].texture_url # None}

generated_textures(task) ==
    [panel_id \in {task.panel_ids[k] : k \in Succeeded(task)} |->
        LET k == CHOOSE j \in Succeeded(task) :
                    /\ task.panel_ids[j] = panel_id
                    /\ \A i \in Succeeded(task) : task.panel_ids[i] = panel_id => i <= j
        IN PanelTexture(panel_id, task.panels[k].texture_url)]

failed_panels_all(task) == task.panel_ids

failed_panels(task) ==
    LET Failed(k) == task.panels[k].texture_url = None
        F[k \in 0..Len(task.panels)] ==
            IF k = 0 THEN <<>>
            ELSE IF Failed(k) THEN Append(F[k - 1], task.panel_ids[k]) ELSE F[k - 1]
    IN F[Len(task.panels)]

AllPanelsDone_first(task) ==
    task.panels # <<>> => task.panels[1].pc = "done"

\* `await asyncio.gather(...)`, line 267: every sub-task has returned
AllPanelsDone(task) ==
    \A k \in 1..Len(task.panels) : task.panels[k].pc = "done"

\* _generate_all, lines 288-307: the atomic commit, after which the task is done
CommitBulk(b) ==
    /\ bulk_tasks[b].pc = "phase2"
    /\ AllPanelsDone(bulk_tasks[b])
    /\ LET task == bulk_tasks[b]
           loaded == get_packaging_state
           merged == IF DOMAIN generated_textures(task) # {}
                     THEN atomic_update_textures(loaded, generated_textures(task), FALSE)
                     ELSE loaded
           failed == failed_panels(task)
       IN packaging_state' =
              [merged EXCEPT
                 !.bulk_generation_in_progress = FALSE,
                 !.generating_panel = None,
                 !.generating_panels = <<>>,
                 !.last_error =
                     IF failed # <<>>
                     THEN BulkErrorMessage(Cardinality(DOMAIN generated_textures(task)),
                                           Len(task.panel_ids), failed)
                     ELSE None]
    /\ bulk_tasks' = [bulk_tasks EXCEPT ![b] = NoBulkTask]
    /\ UNCHANGED <<panel_tasks, response>>

\* TRUE when the endpoint answers 202 for a missing texture
InProgressFor(state, panel_id) == state.in_progress /\ state.generating_panel = panel_id

\* GET /panels/{panel_id}/texture
get_panel_texture_endpoint(panel_id) ==
    LET state == get_packaging_state
        texture == get_panel_texture(state, panel_id)
    IN /\ response' =
              IF texture = <<>>
              THEN IF InProgressFor(state, panel_id)
                   THEN Response("get_panel_texture", 202, panel_id)
                   ELSE Response("get_panel_texture", 404, panel_id)
              ELSE Response("get_panel_texture", 200, texture[1].texture_url)
       /\ UNCHANGED <<packaging_state, panel_tasks, bulk_tasks>>

delete_panel_texture(panel_id) ==
    LET state == get_packaging_state
    IN /\ packaging_state' =
              IF panel_id \in DOMAIN panel_textures(state)
              THEN set_panel_textures(state, DictDel(panel_textures(state), panel_id))
              ELSE packaging_state
       /\ response' = Ok("delete_panel_texture", "deleted")
       /\ UNCHANGED <<panel_tasks, bulk_tasks>>

update_dimensions(package_type, dimensions) ==
    LET state == get_packaging_state
    IN /\ packaging_state' =
              set_package_dimensions([state EXCEPT !.current_package_type = package_type],
                                     dimensions)
       /\ response' = Ok("update_dimensions", "updated")
       /\ UNCHANGED <<panel_tasks, bulk_tasks>>

reset_current_shape ==
    LET state == get_packaging_state
    IN /\ packaging_state' =
              IF state.current_package_type = "box"
              THEN [state EXCEPT !.box_state = ShapeState(Dimensions(100, 150, 100))]
              ELSE [state EXCEPT !.cylinder_state = ShapeState(Dimensions(80, 150, 80))]
       /\ response' = Ok("reset_current_shape", "reset")
       /\ UNCHANGED <<panel_tasks, bulk_tasks>>

clear_state ==
    /\ packaging_state' = clear_packaging_state
    /\ response' = Ok("clear_state", "cleared")
    /\ UNCHANGED <<panel_tasks, bulk_tasks>>

PackagingInit ==
    /\ packaging_state = PackagingState
    /\ panel_tasks = [t \in PanelTaskIds |-> NoPanelTask]
    /\ bulk_tasks = [b \in BulkTaskIds |-> NoBulkTask]
    /\ requests = 0

Init == ProductInit /\ PackagingInit

\* one more request is served, within the bound of the model
Served == requests < MaxRequests /\ requests' = requests + 1

PackagingNext ==
    \/ \E panel_id \in PanelIds, package_type \in PackageTypes :
          generate_panel_texture(panel_id, package_type, RequestDimensions(package_type))
             /\ Served /\ UNCHANGED product_vars
    \/ \E t \in PanelTaskIds, texture_url \in TextureUrls :
          PanelTextureReturned(t, texture_url) /\ UNCHANGED <<requests, product_vars>>
    \/ \E t \in PanelTaskIds, error_message \in {NoImageMessage, PanelExceptionMessage} :
          PanelTextureFailed(t, error_message) /\ UNCHANGED <<requests, product_vars>>
    \/ \E panel_ids \in PanelIdLists, package_type \in PackageTypes :
          \E reference_mockup \in ReferenceMockups :
             generate_all_panels(panel_ids, package_type,
                                 RequestDimensions(package_type), reference_mockup)
                /\ Served /\ UNCHANGED product_vars
    \/ \E b \in BulkTaskIds, mockup_images \in MockupResults :
          MockupGenerated(b, mockup_images) /\ UNCHANGED <<requests, product_vars>>
    \/ \E b \in BulkTaskIds : MockupRaised(b) /\ UNCHANGED <<requests, product_vars>>
    \/ \E b \in BulkTaskIds : \E k \in 1..Len(bulk_tasks[b].panel_ids), texture_url \in TextureUrls :
          BulkPanelReturned(b, k, texture_url) /\ UNCHANGED <<requests, product_vars>>
    \/ \E b \in BulkTaskIds : \E k \in 1..Len(bulk_tasks[b].panel_ids) :
          BulkPanelFailed(b, k) /\ UNCHANGED <<requests, product_vars>>
    \/ \E b \in BulkTaskIds : CommitBulk(b) /\ UNCHANGED <<requests, product_vars>>
    \/ \E panel_id \in PanelIds :
          get_panel_texture_endpoint(panel_id) /\ Served /\ UNCHANGED product_vars
    \/ \E panel_id \in PanelIds : delete_panel_texture(panel_id) /\ Served /\ UNCHANGED product_vars
    \/ \E package_type \in PackageTypes, dimensions \in DimensionsInputs :
          update_dimensions(package_type, dimensions) /\ Served /\ UNCHANGED product_vars
    \/ reset_current_shape /\ Served /\ UNCHANGED product_vars
    \/ clear_state /\ Served /\ UNCHANGED product_vars

\* The awaited generate_panel_texture of a single-panel task returns or raises
PanelAnswered(t) ==
    /\ \/ \E texture_url \in TextureUrls : PanelTextureReturned(t, texture_url)
       \/ \E error_message \in {NoImageMessage, PanelExceptionMessage} :
             PanelTextureFailed(t, error_message)
    /\ UNCHANGED <<requests, product_vars>>

\* The next step of bulk task b: phase 1 answers, a panel sub-task's
\* capability call answers, or gather returns and the commit runs
BulkStep(b) ==
    /\ \/ \E mockup_images \in MockupResults : MockupGenerated(b, mockup_images)
       \/ MockupRaised(b)
       \/ \E k \in 1..Len(bulk_tasks[b].panel_ids) :
             \/ \E texture_url \in TextureUrls : BulkPanelReturned(b, k, texture_url)
             \/ BulkPanelFailed(b, k)
       \/ CommitBulk(b)
    /\ UNCHANGED <<requests, product_vars>>

\* The event loop runs every background task of the packaging router, and
\* every capability call eventually returns or raises; no request is ever
\* required to happen.
PackagingRunSpec ==
    /\ Init
    /\ [][PackagingNext]_vars
    /\ \A t \in PanelTaskIds : WF_vars(PanelAnswered(t))
    /\ \A b \in BulkTaskIds : WF_vars(BulkStep(b))

(***************************************************************************)
(* Several server processes on one store.  Each runs its handlers one at a *)
(* time, but the Redis GET of one process and the SET of another are       *)
(* separate operations, so a handler of another process can run between    *)
(* the load and the save of a start handler.                               *)
(***************************************************************************)
\* start_create, line 49, or start_edit, line 77: state = get_product_state()
StartLoad(p, request, prompt, image_count) ==
    /\ handlers[p].pc = "idle"
    /\ handlers[p].served < MaxStarts
    /\ handlers' = [handlers EXCEPT ![p] =
                       [pc |-> "loaded", request |-> request, prompt |-> prompt,
                        image_count |-> image_count, state |-> get_product_state,
                        served |-> handlers[p].served + 1]]
    /\ UNCHANGED <<product_state, product_status, background_tasks, response>>

\* the rest of the handler, from the busy check to the answer
StartSave(p) ==
    /\ handlers[p].pc = "loaded"
    /\ IF handlers[p].request = "start_create"
       THEN StartCreateFrom(handlers[p].state, handlers[p].prompt, handlers[p].image_count)
       ELSE StartEditFrom(handlers[p].state, handlers[p].prompt)
    /\ handlers' = [handlers EXCEPT ![p] =
                       [NoHandler EXCEPT !.served = handlers[p].served]]

SharedStoreNext ==
    \/ \E p \in Processes, prompt \in CreatePrompts, image_count \in ImageCounts :
          StartLoad(p, "start_create", prompt, image_count) /\ UNCHANGED packaging_vars
    \/ \E p \in Processes, prompt \in EditPrompts :
          StartLoad(p, "start_edit", prompt, 1) /\ UNCHANGED packaging_vars
    \/ \E p \in Processes : StartSave(p) /\ UNCHANGED packaging_vars
    \/ \E t \in TaskIds : run_create(t) /\ UNCHANGED <<packaging_vars, handlers>>
    \/ \E t \in TaskIds : run_edit(t) /\ UNCHANGED <<packaging_vars, handlers>>
    \/ \E t \in TaskIds : \E images \in GeminiResults(background_tasks[t].state.image_count) :
          ImagesReturned(t, images) /\ UNCHANGED <<packaging_vars, handlers>>
    \/ \E t \in TaskIds : ImagesRaised(t) /\ UNCHANGED <<packaging_vars, handlers>>
    \/ \E t \in TaskIds : \E progress \in TrellisProgressValues :
          progress_callback(t, progress) /\ UNCHANGED <<packaging_vars, handlers>>
    \/ \E t \in TaskIds : \E artifacts \in TrellisOutputs :
          TrellisReturned(t, artifacts) /\ UNCHANGED <<packaging_vars, handlers>>
    \/ \E t \in TaskIds : TrellisRaised(t) /\ UNCHANGED <<packaging_vars, handlers>>

SharedStoreSpec == Init /\ [][SharedStoreNext]_vars

ProductSpec == Init /\ [][ProductNext]_vars

PackagingSpec == Init /\ [][PackagingNext]_vars

\* One uninterrupted life of the server process: every handler and run step,
\* no restart.
ProductRunNext ==
    \/ \E prompt \in CreatePrompts, image_count \in ImageCounts :
          start_create(prompt, image_count) /\ UNCHANGED <<packaging_vars, handlers>>
    \/ \E prompt \in EditPrompts : start_edit(prompt) /\ UNCHANGED <<packaging_vars, handlers>>
    \/ fetch_product_state /\ UNCHANGED <<packaging_vars, handlers>>
    \/ fetch_product_status /\ UNCHANGED <<packaging_vars, handlers>>
    \/ recover_state /\ UNCHANGED <<packaging_vars, handlers>>
    \/ \E iteration_index \in -1..MaxIterations :
          rewind_product(iteration_index) /\ UNCHANGED <<packaging_vars, handlers>>
    \/ \E t \in TaskIds : run_create(t) /\ UNCHANGED <<packaging_vars, handlers>>
    \/ \E t \in TaskIds : run_edit(t) /\ UNCHANGED <<packaging_vars, handlers>>
    \/ \E t \in TaskIds : \E images \in GeminiResults(background_tasks[t].state.image_count) :
          ImagesReturned(t, images) /\ UNCHANGED <<packaging_vars, handlers>>
    \/ \E t \in TaskIds : ImagesRaised(t) /\ UNCHANGED <<packaging_vars, handlers>>
    \/ \E t \in TaskIds : \E progress \in TrellisProgressValues :
          progress_callback(t, progress) /\ UNCHANGED <<packaging_vars, handlers>>
    \/ \E t \in TaskIds : \E artifacts \in TrellisOutputs :
          TrellisReturned(t, artifacts) /\ UNCHANGED <<packaging_vars, handlers>>
    \/ \E t \in TaskIds : TrellisRaised(t) /\ UNCHANGED <<packaging_vars, handlers>>

\* The event loop runs a task created by asyncio.create_task
TaskScheduled(t) == (run_create(t) \/ run_edit(t)) /\ UNCHANGED <<packaging_vars, handlers>>

\* The awaited generate_product_images returns or raises
ImagesAnswered(t) ==
    /\ \/ \E images \in GeminiResults(background_tasks[t].state.image_count) :
             ImagesReturned(t, images)
       \/ ImagesRaised(t)
    /\ UNCHANGED <<packaging_vars, handlers>>

\* The awaited _generate_trellis_model returns or raises
TrellisAnswered(t) ==
    /\ \/ \E artifacts \in TrellisOutputs : TrellisReturned(t, artifacts)
       \/ TrellisRaised(t)
    /\ UNCHANGED <<packaging_vars, handlers>>

\* the next step of task t's coroutine, whichever await it is suspended in
RunStep(t) == TaskScheduled(t) \/ ImagesAnswered(t) \/ TrellisAnswered(t)

\* The event loop schedules every created task, and every capability call
\* eventually returns or raises; no client request is ever required to happen.
ProductRunSpec ==
    /\ Init
    /\ [][ProductRunNext]_vars
    /\ \A t \in TaskIds : WF_vars(RunStep(t))

(***************************************************************************)
(* Properties of the product session (ProductSpec).                        *)
(***************************************************************************)
StoreUnchanged == UNCHANGED <<product_state, product_status>>

StartRequest ==
    \/ \E prompt \in CreatePrompts, image_count \in ImageCounts :
          start_create(prompt, image_count)
    \/ \E prompt \in EditPrompts : start_edit(prompt)

\* C1: a start-create or start-edit issued while the persisted session has
\* in_progress = true answers 409 "Generation already running", registers no
\* task, and leaves the session and the status projection as they were.
C1_BusyStartRejected ==
    [][(product_state.in_progress /\ StartRequest)
          => /\ response'.code = 409
             /\ response'.detail = "Generation already running"
             /\ UNCHANGED background_tasks
             /\ StoreUnchanged]_vars

\* a start request was refused as busy while a run is suspended in reconstruction
C1_Witness ==
    /\ response = Response("start_create", 409, "Generation already running")
    /\ product_state.in_progress
    /\ \E t \in TaskIds : background_tasks[t].pc = "generating_model"

UnfinishedRuns == {t \in TaskIds : background_tasks[t].pc # "none"}

\* C2: at most one pipeline run is unfinished at any time, and while one is
\* unfinished the persisted session has in_progress = true.
C2_SingleRun ==
    /\ Cardinality(UnfinishedRuns) <= 1
    /\ (UnfinishedRuns # {} => product_state.in_progress)

\* an edit run is under way on a session that already holds one iteration
C2_Witness ==
    /\ \E t \in TaskIds : /\ background_tasks[t].pc = "generating_images"
                          /\ background_tasks[t].kind = "edit"
    /\ Len(product_state.iterations) = 1

EditRequest == \E prompt \in EditPrompts : start_edit(prompt)

NoImagesOrPrompt == product_state.images = <<>> \/ product_state.prompt = None

\* C3 as stated: every start-edit on a session without images (or without a
\* prompt) is answered with the precondition failure (400) and changes nothing.
C3_AsStated ==
    [][(NoImagesOrPrompt /\ EditRequest)
          => /\ response' = Response("start_edit", 400, "No base product available to edit")
             /\ UNCHANGED background_tasks
             /\ StoreUnchanged]_vars

\* C3, amended: every start-edit on a session without images (or without a
\* prompt) is rejected, registers no task and changes neither blob; the
\* rejection is the precondition failure (400) when no run is in progress and
\* the busy signal (409) when one is, because the busy check comes first.
C3_EditWithoutBaseRejected ==
    [][(NoImagesOrPrompt /\ EditRequest)
          => /\ response' =
                   IF product_state.in_progress
                   THEN Response("start_edit", 409, "Generation already running")
                   ELSE Response("start_edit", 400, "No base product available to edit")
             /\ UNCHANGED background_tasks
             /\ StoreUnchanged]_vars

\* an edit was refused on an idle session that has a prompt but no images
\* (its create run failed)
C3_Witness ==
    /\ response = Response("start_edit", 400, "No base product available to edit")
    /\ product_state.prompt # None
    /\ product_state.images = <<>>
    /\ product_state.status = "error"

\* C6: a rewind to a valid index i on an idle session leaves iterations equal
\* to its former prefix of length i+1, sets images, reconstruction output and
\* latest_instruction from iteration i, and sets prompt from it only when
\* iteration i is a create.
C6_RewindRestores ==
    [][\A i \in 0..MaxIterations :
          (/\ ~product_state.in_progress
           /\ i < Len(product_state.iterations)
           /\ rewind_product(i))
          => LET it == product_state.iterations[i + 1]
             IN /\ Len(product_state'.iterations) = i + 1
                /\ \A k \in 1..(i + 1) :
                      product_state'.iterations[k] = product_state.iterations[k]
                /\ product_state'.images = it.images
                /\ product_state'.trellis_output = it.trellis_output
                /\ product_state'.latest_instruction = it.prompt
                /\ product_state'.prompt =
                      IF it.type = "create" THEN it.prompt ELSE product_state.prompt]_vars

\* the session has just been rewound to its create iteration
C6_Witness ==
    /\ response = Response("rewind_product", 200, "rewound")
    /\ Len(product_state.iterations) = 1
    /\ product_state.iterations[1].type = "create"
    /\ product_state.latest_instruction = product_state.iterations[1].prompt
    /\ product_state.images = product_state.iterations[1].images

\* C7: rewind is refused, and neither blob changes, when a run is in progress
\* (409) or when the index is negative or not below the length of iterations (400).
C7_RewindRejected ==
    [][\A i \in -1..MaxIterations :
          (/\ \/ product_state.in_progress
              \/ i < 0
              \/ i >= Len(product_state.iterations)
           /\ rewind_product(i))
          => /\ response' =
                   IF product_state.in_progress
                   THEN Response("rewind_product", 409,
                                 "Cannot rewind while generation is running")
                   ELSE Response("rewind_product", 400, "Invalid iteration index")
             /\ UNCHANGED background_tasks
             /\ StoreUnchanged]_vars

\* a rewind was refused for its index on a session that has iterations
C7_Witness ==
    /\ response = Response("rewind_product", 400, "Invalid iteration index")
    /\ Len(product_state.iterations) = MaxIterations

\* C8: recover called while a run of this process is unfinished reports "not
\* recovered" and leaves the session (in_progress still true), the status
\* projection and the run itself untouched.
C8_RecoverNoOpWhileRunning ==
    [][(UnfinishedRuns # {} /\ recover_state)
          => /\ response' = Response("recover_state", 200, "not recovered")
             /\ product_state'.in_progress
             /\ UNCHANGED background_tasks
             /\ StoreUnchanged]_vars

\* recover answered "not recovered" while a run is suspended in image generation
C8_Witness ==
    /\ response = Response("recover_state", 200, "not recovered")
    /\ product_state.in_progress
    /\ \E t \in TaskIds : background_tasks[t].pc = "generating_images"

Orphaned == product_state.in_progress /\ UnfinishedRuns = {}

RecoveredMessage == "Recovered from interrupted generation"

\* C9: recover on an orphaned session (in_progress and no unfinished task)
\* clears in_progress, sets phase idle, writes an idle status projection with
\* the "recovered" message and reports recovered; a recover issued right after
\* a successful one reports not recovered and changes nothing.
C9_RecoverOnce ==
    /\ [][(Orphaned /\ recover_state)
            => /\ response' = Response("recover_state", 200, "recovered")
               /\ ~product_state'.in_progress
               /\ product_state'.status = "idle"
               /\ product_status'.status = "idle"
               /\ product_status'.message = RecoveredMessage]_vars
    /\ [][(response = Response("recover_state", 200, "recovered") /\ recover_state)
            => /\ response' = Response("recover_state", 200, "not recovered")
               /\ UNCHANGED background_tasks
               /\ StoreUnchanged]_vars

\* an orphaned session has just been recovered: the run had stored its images
\* before the process went away
C9_Witness ==
    /\ response = Response("recover_state", 200, "recovered")
    /\ ~product_state.in_progress
    /\ product_state.status = "idle"
    /\ product_state.images # <<>>
    /\ product_state.iterations = <<>>

(***************************************************************************)
(* Properties of the packaging session (PackagingSpec).                    *)
(***************************************************************************)
\* the panels of a bulk task whose generation failed / succeeded, as sets
FailedSet(task) == {task.panel_ids[k] : k \in {j \in 1..Len(task.panels) :
                                                  task.panels[j].texture_url = None}}
PanelSet(task) == {task.panel_ids[k] : k \in 1..Len(task.panel_ids)}

\* the texture this run generated for panel_ids[k]
GeneratedIn(task, k) == PanelTexture(task.panel_ids[k], task.panels[k].texture_url)

\* the summary the commit must leave in last_error
ExpectedLastError(task) ==
    IF FailedSet(task) = {} THEN None
    ELSE "Generated " \o ToString(Cardinality(PanelSet(task) \ FailedSet(task)))
            \o "/" \o ToString(Cardinality(PanelSet(task))) \o " textures. Failed: "
            \o Join(SelectSeq(task.panel_ids, LAMBDA p : p \in FailedSet(task)))
            \o " (old textures retained)"

\* what the commit of bulk task b installs and reports, F's panels being
\* compared with the textures before[k] of panel_ids[k]
CommitOutcome(b, before) ==
    LET task == bulk_tasks[b]
    IN /\ \A k \in 1..Len(task.panel_ids) :
             IF task.panels[k].texture_url # None
             THEN get_panel_texture(packaging_state', task.panel_ids[k])
                      = <<GeneratedIn(task, k)>>
             ELSE get_panel_texture(packaging_state', task.panel_ids[k])
                      = before[k]
       /\ packaging_state'.last_error = ExpectedLastError(task)

\* C4 as stated: after the commit of a bulk run every panel that succeeded maps
\* to the texture generated in this run, every panel that failed maps to the
\* texture it had before the run (when the request was accepted), and
\* last_error names the failed panels with the count, or is cleared.
C4_AsStated ==
    [][\A b \in BulkTaskIds :
          CommitBulk(b) => CommitOutcome(b, bulk_tasks[b].state_textures)]_vars

\* C4, amended: after the commit of a bulk run, in the shape that is active
\* when the commit re-loads the session, every panel that succeeded maps to
\* the texture generated in this run, every panel that failed maps to the
\* texture it had immediately before the commit (none if it had none), and
\* last_error names exactly the failed panels with the count succeeded/total,
\* or is cleared when none failed.
C4_BulkCommitOutcome ==
    [][\A b \in BulkTaskIds :
          CommitBulk(b) => CommitOutcome(b, TexturesOf(packaging_state,
                                                      bulk_tasks[b].panel_ids))]_vars

\* a bulk run over front and back has committed with back failed: front has
\* a texture, back still has the one it had, last_error names back
C4_Witness ==
    /\ packaging_state.last_error =
           "Generated 1/2 textures. Failed: back (old textures retained)"
    /\ {"front", "back"} \subseteq DOMAIN panel_textures(packaging_state)
    /\ \A b \in BulkTaskIds : bulk_tasks[b].pc = "none"

\* C5: the commit of a bulk run over the panels P leaves the active shape's
\* texture of every panel outside P as it was immediately before the commit.
C5_MergeNotReplace ==
    [][\A b \in BulkTaskIds :
          CommitBulk(b)
          => \A q \in PanelIds \ PanelSet(bulk_tasks[b]) :
                get_panel_texture(packaging_state', q)
                    = get_panel_texture(packaging_state, q)]_vars

\* a bulk run over front alone is about to commit a new front texture while
\* back, outside the run, has a texture in the active shape
C5_Witness ==
    \E b \in BulkTaskIds :
       /\ bulk_tasks[b].pc = "phase2"
       /\ bulk_tasks[b].panel_ids = <<"front">>
       /\ bulk_tasks[b].panels[1].pc = "done"
       /\ bulk_tasks[b].panels[1].texture_url # None
       /\ "back" \in DOMAIN panel_textures(packaging_state)

OtherShape(package_type) == IF package_type = "cylinder" THEN "box_state" ELSE "cylinder_state"

\* C10 as stated: update-dimensions for one package type, and delete-panel-
\* texture and reset-shape on the active shape, leave the other shape's stored
\* dimensions and textures as they were.
C10_AsStated ==
    [][/\ \A package_type \in PackageTypes, dimensions \in DimensionsInputs :
             update_dimensions(package_type, dimensions)
             => packaging_state'[OtherShape(package_type)]
                    = packaging_state[OtherShape(package_type)]
       /\ ((\E panel_id \in PanelIds : delete_panel_texture(panel_id)) \/ reset_current_shape)
             => packaging_state'[OtherShape(packaging_state.current_package_type)]
                    = packaging_state[OtherShape(packaging_state.current_package_type)]]_vars

\* width, height and depth are present and positive
PositiveDimensions(dims) ==
    /\ {"width", "height", "depth"} \subseteq DOMAIN dims
    /\ \A key \in {"width", "height", "depth"} : dims[key] > 0

\* the defaults of a shape-state field
DefaultDimensions(shape) ==
    IF shape = "cylinder_state" THEN _default_cylinder_dimensions
    ELSE _default_box_dimensions

\* C11 as stated: a load of the packaging session returns, for both shapes,
\* positive width, height and depth: the stored dimensions when they are
\* valid, the shape's defaults when a key is missing or a value is zero or
\* negative.
C11_AsStated ==
    \A shape \in {"box_state", "cylinder_state"} :
       LET stored == packaging_state[shape].dimensions
           loaded == get_packaging_state[shape].dimensions
       IN /\ PositiveDimensions(loaded)
          /\ loaded = IF PositiveDimensions(stored) THEN stored
                      ELSE DefaultDimensions(shape)

(***************************************************************************)
(* Properties of the pipeline runs (ProductSpec).                          *)
(***************************************************************************)
\* C12: a create run with prompt p whose image generation returns a non-empty
\* list L and whose reconstruction returns a bundle with mesh m ends with the
\* session complete, not in progress, prompt = p, images = L,
\* reconstruction output mesh = m and exactly one iteration, of kind create,
\* and with the status projection complete at progress 100 with model
\* reference m.
C12_CreateRunCompletes ==
    /\ [][\A t \in TaskIds, images \in GeminiResults(2) :
            (images # <<>> /\ ImagesReturned(t, images))
            => /\ background_tasks'[t].state.images = images
               /\ product_state'.images = images]_vars
    /\ [][\A t \in TaskIds, artifacts \in TrellisOutputs :
            (background_tasks[t].kind = "create" /\ TrellisReturned(t, artifacts))
            => /\ product_state'.status = "complete"
               /\ ~product_state'.in_progress
               /\ product_state'.prompt = background_tasks[t].instruction
               /\ product_state'.images = background_tasks[t].state.images
               /\ product_state'.images # <<>>
               /\ product_state'.trellis_output = <<artifacts>>
               /\ Len(product_state'.iterations) = 1
               /\ product_state'.iterations[1].type = "create"
               /\ product_status'.status = "complete"
               /\ product_status'.progress = 100
               /\ product_status'.model_file = artifacts.model_file]_vars

\* a create run has just completed with two images
C12_Witness ==
    /\ product_state.status = "complete"
    /\ product_state.mode = "create"
    /\ Len(product_state.images) = 2
    /\ Len(product_state.iterations) = 1
    /\ product_status.progress = 100
    /\ \A t \in TaskIds : background_tasks[t].pc = "none"

\* C13: an edit run hands to image generation, as reference images, the
\* session's images as they were when the run started; when it succeeds the
\* stored iterations become the former ones followed by one new iteration of
\* kind edit, the reconstruction output is the new bundle, and the status
\* projection is complete with the new mesh as model reference.
C13_EditRunAppends ==
    /\ [][\A t \in TaskIds :
            (run_edit(t) /\ background_tasks'[t].pc = "generating_images")
            => background_tasks'[t].reference_images = product_state.images]_vars
    /\ [][\A t \in TaskIds, artifacts \in TrellisOutputs :
            (background_tasks[t].kind = "edit" /\ TrellisReturned(t, artifacts))
            => /\ Len(product_state'.iterations) = Len(product_state.iterations) + 1
               /\ SubSeq(product_state'.iterations, 1, Len(product_state.iterations))
                      = product_state.iterations
               /\ product_state'.iterations[Len(product_state'.iterations)].type = "edit"
               /\ product_state'.trellis_output = <<artifacts>>
               /\ product_state'.status = "complete"
               /\ product_status'.status = "complete"
               /\ product_status'.model_file = artifacts.model_file]_vars

\* an edit run has just completed on a session that held one create iteration
C13_Witness ==
    /\ product_state.status = "complete"
    /\ Len(product_state.iterations) = 2
    /\ product_state.iterations[1].type = "create"
    /\ product_state.iterations[2].type = "edit"
    /\ product_state.trellis_output = product_state.iterations[2].trellis_output
    /\ \A t \in TaskIds : background_tasks[t].pc = "none"

\* the session and the status projection after a run failed with `message`
FailedWith(t, message) ==
    /\ product_state'.status = "error"
    /\ ~product_state'.in_progress
    /\ product_state'.last_error = message
    /\ product_status'.status = "error"
    /\ product_status'.error = message
    /\ background_tasks'[t].pc = "none"

\* C14: when image generation returns no image or raises, or reconstruction
\* raises, the run ends at once (no retry) with the session in phase error,
\* not in progress, last_error equal to the failure message, and the status
\* projection in status error with the same message in its error field; a
\* start-create issued on the failed session is accepted.
C14_FailureEndsRun ==
    /\ [][\A t \in TaskIds :
            /\ ImagesReturned(t, <<>>) => FailedWith(t, NoImagesMessage)
            /\ ImagesRaised(t) => FailedWith(t, GeminiErrorMessage)
            /\ TrellisRaised(t) => FailedWith(t, TrellisErrorMessage)]_vars
    /\ [][\A prompt \in CreatePrompts, image_count \in ImageCounts :
            (product_state.status = "error" /\ start_create(prompt, image_count))
            => /\ response'.code = 200
               /\ product_state'.in_progress
               /\ product_state'.status = "pending"
               /\ \E t \in TaskIds : /\ background_tasks[t].pc = "none"
                                     /\ background_tasks'[t].pc = "created"]_vars

\* a run has just failed in reconstruction, after its images were stored
C14_Witness ==
    /\ product_state.status = "error"
    /\ ~product_state.in_progress
    /\ product_state.last_error = TrellisErrorMessage
    /\ product_status.error = TrellisErrorMessage
    /\ product_state.images # <<>>
    /\ \A t \in TaskIds : background_tasks[t].pc = "none"

\* C15 as stated: start-edit is accepted only when a create run has completed
\* since the session was last reset.  A completed run leaves an iteration,
\* rewind keeps at least one and only start-create empties the log, so a
\* session without iterations has had no such run: every start-edit on it is
\* rejected.
C15_AsStated ==
    [][(product_state.iterations = <<>> /\ EditRequest)
          => /\ response'.code \in {400, 409}
             /\ UNCHANGED background_tasks]_vars

\* C16 as stated: a successful rewind leaves mode = idle, phase = idle,
\* in_progress = false and last_error null, whatever the kind of the target
\* iteration.
C16_AsStated ==
    [][\A i \in 0..MaxIterations :
          (/\ ~product_state.in_progress
           /\ i < Len(product_state.iterations)
           /\ rewind_product(i))
          => /\ product_state'.mode = "idle"
             /\ product_state'.status = "idle"
             /\ ~product_state'.in_progress
             /\ product_state'.last_error = None]_vars

IsPrefix(s, t) == Len(s) <= Len(t) /\ s = SubSeq(t, 1, Len(s))

\* C17 as stated: in every step the stored iterations are unchanged, or
\* extended by exactly one new last element, or, in a rewind only, truncated
\* to a prefix.
C17_AsStated ==
    [][\/ product_state'.iterations = product_state.iterations
       \/ /\ Len(product_state'.iterations) = Len(product_state.iterations) + 1
          /\ IsPrefix(product_state.iterations, product_state'.iterations)
       \/ /\ \E i \in 0..MaxIterations : rewind_product(i)
          /\ IsPrefix(product_state'.iterations, product_state.iterations)]_vars

\* C17, amended: in every step the stored iterations are unchanged, or
\* extended by exactly one new last element, or truncated to a prefix by a
\* rewind, or emptied by an accepted start-create; nothing else removes or
\* changes an iteration.
C17_IterationsLog ==
    [][\/ product_state'.iterations = product_state.iterations
       \/ /\ Len(product_state'.iterations) = Len(product_state.iterations) + 1
          /\ IsPrefix(product_state.iterations, product_state'.iterations)
       \/ /\ \E i \in 0..MaxIterations : rewind_product(i)
          /\ IsPrefix(product_state'.iterations, product_state.iterations)
       \/ /\ \E prompt \in CreatePrompts, image_count \in ImageCounts :
                start_create(prompt, image_count)
          /\ ~product_state.in_progress
          /\ product_state'.iterations = <<>>]_vars

\* a rewind has left the log with its create iteration alone, and the status
\* projection points at that iteration's mesh
C17_Witness ==
    /\ response = Response("rewind_product", 200, "rewound")
    /\ product_state.message = "Rewound to previous version"
    /\ Len(product_state.iterations) = 1
    /\ product_state.mode = "create"
    /\ product_status.model_file = product_state.iterations[1].trellis_output[1].model_file

(***************************************************************************)
(* Properties of the packaging requests (PackagingSpec).                   *)
(***************************************************************************)
GenerateRequest ==
    \/ \E panel_id \in PanelIds, package_type \in PackageTypes :
          generate_panel_texture(panel_id, package_type, RequestDimensions(package_type))
    \/ \E panel_ids \in PanelIdLists, package_type \in PackageTypes,
          reference_mockup \in ReferenceMockups :
          generate_all_panels(panel_ids, package_type,
                              RequestDimensions(package_type), reference_mockup)

\* C18 as stated: a generate-panel or generate-all-panels request issued while
\* the session has in_progress or bulk_generation_in_progress set is answered
\* with the "already running" signal, leaves the persisted session unchanged
\* and starts no background task.
C18_AsStated ==
    [][((packaging_state.in_progress \/ packaging_state.bulk_generation_in_progress)
           /\ GenerateRequest)
          => /\ response'.code = 409
             /\ UNCHANGED <<packaging_state, panel_tasks, bulk_tasks>>]_vars

\* a generation of panel_id is running, alone or as a member of a bulk run
GenerationRunning(panel_id) ==
    \/ \E t \in PanelTaskIds : /\ panel_tasks[t].pc = "generating"
                               /\ panel_tasks[t].panel_id = panel_id
    \/ \E b \in BulkTaskIds :
          /\ bulk_tasks[b].pc # "none"
          /\ \E k \in 1..Len(bulk_tasks[b].panel_ids) : bulk_tasks[b].panel_ids[k] = panel_id

\* C19 as stated: get-panel-texture for a panel without a texture in the
\* active shape answers 202 whenever a generation of that panel is running
\* (as a single-panel run or as a member of a running bulk run) and 404 only
\* when none is.
C19_AsStated ==
    [][\A panel_id \in PanelIds :
          (/\ get_panel_texture(get_packaging_state, panel_id) = <<>>
           /\ get_panel_texture_endpoint(panel_id))
          => response'.code = IF GenerationRunning(panel_id) THEN 202 ELSE 404]_vars

\* C20 as stated: update-dimensions with dimensions in which width, height or
\* depth is missing, zero or negative is rejected and leaves the persisted
\* session untouched, so that both stored shape-states keep positive width,
\* height and depth.
C20_AsStated ==
    [][\A package_type \in PackageTypes, dimensions \in DimensionsInputs :
          (~PositiveDimensions(dimensions) /\ update_dimensions(package_type, dimensions))
          => /\ response'.code # 200
             /\ UNCHANGED packaging_state
             /\ PositiveDimensions(packaging_state'.box_state.dimensions)
             /\ PositiveDimensions(packaging_state'.cylinder_state.dimensions)]_vars

(***************************************************************************)
(* Properties of the session stores.                                       *)
(***************************************************************************)
\* C21 as stated: a load with nothing stored returns the default records; a
\* load after a save returns what was saved; and after clear the next load
\* returns the default packaging record, without any texture.
C21_AsStated ==
    /\ (Init => /\ get_product_state = ProductState
                /\ get_packaging_state = PackagingState)
    /\ [][/\ get_product_state' = product_state'
          /\ get_packaging_state' = packaging_state'
          /\ clear_state => get_packaging_state' = PackagingState]_vars

(***************************************************************************)
(* Properties of the phases of a run (ProductSpec).                        *)
(***************************************************************************)
\* C22 as stated: from the acceptance of a start-create or start-edit until
\* the started run fails, last_error of the persisted session is null; a
\* session whose run completed shows no last_error.
C22_AsStated ==
    /\ UnfinishedRuns # {} => product_state.last_error = None
    /\ product_state.status = "complete" => product_state.last_error = None

\* the session phase before and after a step
Phase(from, to) == product_state.status = from /\ product_state'.status = to

\* C23: a run moves the persisted phase from pending to generating_images,
\* then to generating_model, then to complete, one at a time and never back;
\* a failure writes error in place of the next phase; progress callbacks do
\* not touch the session; and the step that writes complete or error is the
\* run's last.
C23_PhaseOrder ==
    [][/\ StartRequest /\ response'.code = 200 => product_state'.status = "pending"
       /\ \A t \in TaskIds :
            /\ (run_create(t) \/ (run_edit(t) /\ background_tasks'[t].pc # "none"))
                  => Phase("pending", "generating_images")
            /\ \A images \in GeminiResults(2) :
                  ImagesReturned(t, images)
                  => IF images = <<>> THEN Phase("generating_images", "error")
                     ELSE Phase("generating_images", "generating_model")
            /\ ImagesRaised(t) => Phase("generating_images", "error")
            /\ (\E progress \in TrellisProgressValues : progress_callback(t, progress))
                  => UNCHANGED product_state
            /\ (\E artifacts \in TrellisOutputs : TrellisReturned(t, artifacts))
                  => Phase("generating_model", "complete")
            /\ TrellisRaised(t) => Phase("generating_model", "error")
            /\ (background_tasks[t].pc # "none"
                  /\ product_state'.status \in {"complete", "error"}
                  /\ product_state' # product_state)
                  => background_tasks'[t].pc = "none"]_vars

\* a run has gone through pending and generating_images and now waits for
\* the reconstruction, whose callback reported progress
C23_Witness ==
    /\ product_state.status = "generating_model"
    /\ product_status.progress = 70
    /\ \E t \in TaskIds : background_tasks[t].pc = "generating_model"

\* a step of a run that changes the phase of the session
RunPhaseChange ==
    /\ \E t \in TaskIds : background_tasks[t].pc # "none"
                          /\ background_tasks'[t] # background_tasks[t]
    /\ product_state'.status # product_state.status

\* C24 as stated: every phase change of a run, the change to error included,
\* persists a progress that is not below any progress persisted earlier in
\* the run, in particular not below the one persisted just before it.
C24_AsStated ==
    [][RunPhaseChange => product_status'.progress >= product_status.progress]_vars

\* C25: whenever no run is unfinished, the phase of the session equals the
\* status of the status projection.
C25_Converge ==
    UnfinishedRuns = {} => product_state.status = product_status.status

\* an orphaned session was recovered: both blobs are idle
C25_Witness ==
    /\ UnfinishedRuns = {}
    /\ product_state.status = "idle"
    /\ product_status.status = "idle"
    /\ product_state.message = RecoveredMessage
    /\ product_status.message = RecoveredMessage

\* the run has ended and the session says so
RunEnded ==
    /\ ~product_state.in_progress
    /\ product_state.status \in {"complete", "error"}

\* C26: while the process lives, every accepted start-create or start-edit
\* leads, with no further client request needed, to a persisted session with
\* in_progress = false and phase complete or error; and the accepted start
\* request answers with the pending acknowledgment.
C26_RunEnds ==
    /\ [][StartRequest /\ response'.code = 200
            => /\ response'.detail = "pending"
               /\ UnfinishedRuns' # {}]_vars
    /\ (UnfinishedRuns # {}) ~> RunEnded

\* a run has failed, and the last answer a client got is still the pending
\* acknowledgment of the start request
C26_Witness ==
    /\ UnfinishedRuns = {}
    /\ RunEnded
    /\ product_state.status = "error"
    /\ response.request \in {"start_create", "start_edit"}
    /\ response.code = 200
    /\ response.detail = "pending"

\* a step of run t that ends it in error
RunFails(t) ==
    \/ ImagesReturned(t, <<>>)
    \/ ImagesRaised(t)
    \/ TrellisRaised(t)

\* C30: the step of a run that completes it appends exactly one iteration,
\* whose images and reconstruction output are those of the session it
\* persists; every other step of a run, the failing ones included, leaves
\* the persisted iterations as they were.
C30_AppendOnSuccess ==
    [][\A t \in TaskIds :
          /\ (\E artifacts \in TrellisOutputs : TrellisReturned(t, artifacts))
                => /\ product_state'.status = "complete"
                   /\ Len(product_state'.iterations) = Len(product_state.iterations) + 1
                   /\ IsPrefix(product_state.iterations, product_state'.iterations)
                   /\ LET last == product_state'.iterations[Len(product_state'.iterations)]
                      IN /\ last.images = product_state'.images
                         /\ last.trellis_output = product_state'.trellis_output
          /\ RunFails(t)
                => /\ product_state'.status = "error"
                   /\ product_state'.iterations = product_state.iterations
          /\ (background_tasks[t].pc # "none" /\ product_state'.status # "complete")
                => product_state'.iterations = product_state.iterations]_vars

\* an edit run completed on top of a create run: two iterations, the last
\* one is the snapshot of the session
C30_Witness ==
    /\ UnfinishedRuns = {}
    /\ product_state.status = "complete"
    /\ Len(product_state.iterations) = 2
    /\ product_state.iterations[2].images = product_state.images
    /\ product_state.iterations[2].trellis_output = product_state.trellis_output
    /\ product_state.trellis_output # <<>>
    /\ product_state.images # <<>>

(***************************************************************************)
(* Properties of the steps of a bulk run (PackagingSpec).                  *)
(***************************************************************************)
\* a step of one panel sub-task of bulk run b
PanelStep(b, k) ==
    \/ \E texture_url \in TextureUrls : BulkPanelReturned(b, k, texture_url)
    \/ BulkPanelFailed(b, k)

\* C27: in a bulk run the failure of a panel sub-task leaves every sibling
\* sub-task and the run as they were; the commit is taken only when every
\* sub-task has returned or failed, and nothing else ends the run; and once
\* every sub-task is done, also when all of them failed, the commit can be
\* taken.
C27_JoinBarrier ==
    [][\A b \in BulkTaskIds :
            /\ \A k \in 1..Len(bulk_tasks[b].panel_ids) :
                  BulkPanelFailed(b, k)
                  => /\ bulk_tasks'[b].pc = "phase2"
                     /\ \A j \in 1..Len(bulk_tasks[b].panels) :
                           j # k => bulk_tasks'[b].panels[j] = bulk_tasks[b].panels[j]
                     /\ UNCHANGED packaging_state
            /\ CommitBulk(b)
                  => /\ \A k \in 1..Len(bulk_tasks[b].panels) :
                           bulk_tasks[b].panels[k].pc = "done"
                     /\ ~packaging_state'.bulk_generation_in_progress
            /\ (bulk_tasks[b].pc # "none" /\ bulk_tasks'[b].pc = "none")
                  => CommitBulk(b)
            /\ (/\ bulk_tasks'[b].pc = "phase2"
                /\ \A k \in 1..Len(bulk_tasks'[b].panels) :
                      bulk_tasks'[b].panels[k].pc = "done")
                  => (ENABLED CommitBulk(b))']_vars

\* a bulk run over front and back in which both sub-tasks failed has
\* committed: the summary names both panels and the bulk marker is cleared
C27_Witness ==
    /\ packaging_state.last_error = BulkErrorMessage(0, 2, <<"front", "back">>)
    /\ ~packaging_state.bulk_generation_in_progress
    /\ \A b \in BulkTaskIds : bulk_tasks[b].pc = "none"

\* the texture maps of both shapes
TextureMaps(state) ==
    <<state.box_state.panel_textures, state.cylinder_state.panel_textures>>

\* the record without the generating_panel / generating_panels markers
WithoutMarkers(state) ==
    [state EXCEPT !.generating_panel = None, !.generating_panels = <<>>]

\* a step of bulk run b before its commit
BeforeCommitStep(b) ==
    \/ \E mockup_images \in MockupResults : MockupGenerated(b, mockup_images)
    \/ MockupRaised(b)
    \/ \E k \in 1..Len(bulk_tasks[b].panel_ids) : PanelStep(b, k)

\* C28: every step of a bulk run before its commit leaves the texture maps
\* of both shapes as they are stored; what it writes, if anything, is the
\* session as re-read from the store with only generating_panel and
\* generating_panels changed; and the commit installs the textures of all
\* panels that succeeded in one write.
C28_NoPartialBatch ==
    [][\A b \in BulkTaskIds :
          /\ BeforeCommitStep(b)
                => /\ TextureMaps(packaging_state') = TextureMaps(packaging_state)
                   /\ \/ packaging_state' = packaging_state
                      \/ WithoutMarkers(packaging_state')
                            = WithoutMarkers(get_packaging_state)
          /\ CommitBulk(b)
                => \A k \in 1..Len(bulk_tasks[b].panel_ids) :
                      bulk_tasks[b].panels[k].texture_url # None
                      => get_panel_texture(packaging_state', bulk_tasks[b].panel_ids[k])
                            # <<>>]_vars

\* a bulk run over front and back: front's sub-task has its new texture,
\* back's is still generating, and the stored session shows neither
C28_Witness ==
    \E b \in BulkTaskIds :
       /\ bulk_tasks[b].pc = "phase2"
       /\ bulk_tasks[b].panel_ids = <<"front", "back">>
       /\ bulk_tasks[b].panels[1].texture_url # None
       /\ bulk_tasks[b].panels[2].pc = "generating"
       /\ TextureMaps(packaging_state) = <<EmptyDict, EmptyDict>>
       /\ packaging_state.generating_panels = <<"back">>

\* C29: phase 2 of a bulk run starts in the step that ends phase 1; a
\* phase 1 that raised or returned no image does not end the run and leaves
\* the request's reference image, or none, as the master reference; every
\* panel sub-task is started in that step, once, with that master reference
\* and without an old texture, and a sub-task that has returned is never
\* started again.
C29_MasterReference ==
    [][\A b \in BulkTaskIds :
          /\ \A mockup_images \in MockupResults :
                MockupGenerated(b, mockup_images)
                => LET master == IF mockup_images = <<>>
                                 THEN bulk_tasks[b].reference_mockup
                                 ELSE mockup_images[1]
                   IN /\ bulk_tasks[b].pc = "phase1"
                      /\ bulk_tasks'[b].pc = "phase2"
                      /\ Len(bulk_tasks'[b].panels) = Len(bulk_tasks[b].panel_ids)
                      /\ \A k \in 1..Len(bulk_tasks'[b].panels) :
                            /\ bulk_tasks'[b].panels[k].pc = "generating"
                            /\ bulk_tasks'[b].panels[k].reference_mockup = master
                            /\ bulk_tasks'[b].panels[k].old_texture_url = None
          /\ MockupRaised(b)
                => /\ bulk_tasks'[b].pc = "phase2"
                   /\ \A k \in 1..Len(bulk_tasks'[b].panels) :
                         /\ bulk_tasks'[b].panels[k].pc = "generating"
                         /\ bulk_tasks'[b].panels[k].reference_mockup
                               = bulk_tasks[b].reference_mockup
                         /\ bulk_tasks'[b].panels[k].old_texture_url = None
          /\ (bulk_tasks[b].pc = "phase1" /\ bulk_tasks'[b].pc # "phase1")
                => bulk_tasks'[b].pc = "phase2"
          /\ (bulk_tasks[b].pc = "phase2" /\ bulk_tasks'[b].pc = "phase2")
                => \A k \in 1..Len(bulk_tasks[b].panels) :
                      \/ bulk_tasks'[b].panels[k] = bulk_tasks[b].panels[k]
                      \/ /\ bulk_tasks[b].panels[k].pc = "generating"
                         /\ bulk_tasks'[b].panels[k].pc = "done"]_vars

\* phase 1 failed in a run over front and back whose request carried a
\* reference image, while back already had a texture: both sub-tasks run
\* with the request's reference image
C29_Witness ==
    \E b \in BulkTaskIds :
       /\ bulk_tasks[b].pc = "phase2"
       /\ bulk_tasks[b].panel_ids = <<"front", "back">>
       /\ bulk_tasks[b].state_textures[2] # <<>>
       /\ \A k \in 1..2 :
             /\ bulk_tasks[b].panels[k].pc = "generating"
             /\ bulk_tasks[b].panels[k].reference_mockup = "ref_img"

(***************************************************************************)
(* Frame properties of the product session (ProductSpec).                  *)
(***************************************************************************)
\* C31 as stated: an edit run that ends in error, also in the reconstruction
\* step after images were generated, leaves the persisted images exactly as
\* they were when the run started.
C31_AsStated ==
    [][\A t \in TaskIds :
          (background_tasks[t].kind = "edit" /\ RunFails(t))
          => product_state'.images = background_tasks[t].reference_images]_vars

\* a step of an edit run, from the request to the run's end
EditStep ==
    \/ \E prompt \in EditPrompts : start_edit(prompt)
    \/ \E t \in TaskIds :
          /\ background_tasks[t].kind = "edit"
          /\ background_tasks[t].pc # "none"
          /\ background_tasks'[t] # background_tasks[t]

\* an accepted rewind to iteration_index, which holds a create iteration
RewindToCreate(iteration_index) ==
    /\ rewind_product(iteration_index)
    /\ response'.code = 200
    /\ product_state.iterations[iteration_index + 1].type = "create"

\* C32: prompt changes only in an accepted start-create, which sets it to the
\* request's prompt, or in a rewind to a create iteration, which restores
\* that iteration's prompt; no step of an edit, accepted, rejected,
\* successful or failed, changes prompt; an accepted start-edit stores its
\* instruction in latest_instruction.
C32_PromptFrame ==
    [][/\ product_state'.prompt # product_state.prompt
          => \/ \E prompt \in CreatePrompts, image_count \in ImageCounts :
                   /\ start_create(prompt, image_count)
                   /\ response'.code = 200
                   /\ product_state'.prompt = prompt
             \/ \E iteration_index \in 0..MaxIterations - 1 :
                   /\ RewindToCreate(iteration_index)
                   /\ product_state'.prompt
                         = product_state.iterations[iteration_index + 1].prompt
       /\ EditStep => product_state'.prompt = product_state.prompt
       /\ \A prompt \in EditPrompts :
             (start_edit(prompt) /\ response'.code = 200)
             => product_state'.latest_instruction = prompt]_vars

\* an edit run has completed on a created product: the prompt is still the
\* creation prompt and latest_instruction is the edit instruction
C32_Witness ==
    /\ product_state.status = "complete"
    /\ product_state.mode = "edit"
    /\ product_state.prompt \in CreatePrompts
    /\ product_state.latest_instruction \in EditPrompts
    /\ Len(product_state.iterations) = 2

\* C33 as stated: in every persisted session in_progress = false implies
\* that generation_started_at is null.
C33_AsStated ==
    ~product_state.in_progress => product_state.generation_started_at = None

\* a step that ends a run: its completion or its failure
RunEnds(t) ==
    \/ \E artifacts \in TrellisOutputs : TrellisReturned(t, artifacts)
    \/ RunFails(t)

\* C34: the persisted in_progress goes from true to false only in the step
\* that ends a run, or in a recover that finds no unfinished task.
C34_InProgressCleared ==
    [][(product_state.in_progress /\ ~product_state'.in_progress)
          => \/ \E t \in TaskIds : RunEnds(t)
             \/ recover_state /\ UnfinishedRuns = {}]_vars

\* a rewind was refused while a run was under way on a session that has an
\* iteration to go back to: in_progress is still set
C34_Witness ==
    /\ response = RewindBusy409
    /\ product_state.in_progress
    /\ product_state.iterations # <<>>
    /\ UnfinishedRuns # {}

\* the session shows the snapshot of its last iteration
ShowsLastIteration(state) ==
    /\ state.iterations # <<>>
    /\ state.images = state.iterations[Len(state.iterations)].images
    /\ state.trellis_output = state.iterations[Len(state.iterations)].trellis_output

\* C38: every step that leaves the persisted session in phase complete, and
\* every accepted rewind, leaves a session whose iterations are not empty and
\* whose images and reconstruction output are those of the last iteration.
C38_ShowsLastIteration ==
    [][/\ product_state'.status = "complete" => ShowsLastIteration(product_state')
       /\ ((\E iteration_index \in -1..MaxIterations : rewind_product(iteration_index))
              /\ response'.code = 200)
          => ShowsLastIteration(product_state')]_vars

\* a session with two iterations was rewound to the first: it shows the
\* first iteration's snapshot, which is now the last
C38_Witness ==
    /\ response = Ok("rewind_product", "rewound")
    /\ product_state.status = "idle"
    /\ Len(product_state.iterations) = 1
    /\ ShowsLastIteration(product_state)
    /\ product_state.mode = "create"

(***************************************************************************)
(* Properties of concurrent packaging generations.                         *)
(***************************************************************************)
\* the shape-state of a package type
ShapeOf(package_type) == IF package_type = "cylinder" THEN "cylinder_state" ELSE "box_state"

\* C36 as stated: the texture produced by a generate-panel request issued
\* for package type T is installed into T's shape-state and the other
\* shape's textures stay unchanged, whatever happened to the active shape
\* between the request and its completion.
C36_AsStated ==
    [][\A t \in PanelTaskIds, texture_url \in TextureUrls :
          PanelTextureReturned(t, texture_url)
          => LET T == panel_tasks[t].package_type
                 panel_id == panel_tasks[t].panel_id
             IN /\ panel_id \in DOMAIN packaging_state'[ShapeOf(T)].panel_textures
                /\ packaging_state'[ShapeOf(T)].panel_textures[panel_id]
                      = PanelTexture(panel_id, texture_url)
                /\ packaging_state'[OtherShape(T)].panel_textures
                      = packaging_state[OtherShape(T)].panel_textures]_vars

\* a bulk run is between its start and its commit
BulkRunning == \E b \in BulkTaskIds : bulk_tasks[b].pc # "none"

\* C37 as stated: the end of a single-panel run, by completion or failure,
\* while a bulk run is between its start and its commit leaves the bulk
\* markers of the persisted session as they were.
C37_AsStated ==
    [][(BulkRunning /\ \E t \in PanelTaskIds : PanelAnswered(t))
          => /\ packaging_state'.bulk_generation_in_progress
                   = packaging_state.bulk_generation_in_progress
             /\ packaging_state'.generating_panels
                   = packaging_state.generating_panels]_vars

\* the generation markers of the session are all clear
MarkersClear(state) ==
    /\ ~state.in_progress
    /\ ~state.bulk_generation_in_progress
    /\ state.generating_panel = None
    /\ state.generating_panels = <<>>

AllFinished ==
    /\ \A t \in PanelTaskIds : panel_tasks[t].pc = "none"
    /\ \A b \in BulkTaskIds : bulk_tasks[b].pc = "none"

\* C39: whenever no single-panel and no bulk task is unfinished the
\* generation markers of the persisted session are all clear, and every
\* unfinished task eventually finishes.
C39_MarkersSettle ==
    /\ [][AllFinished' => MarkersClear(packaging_state')]_vars
    /\ ~AllFinished ~> AllFinished

\* a bulk run was started while a single-panel run was under way (the bulk
\* request, the later of the two, cleared last_error, and the single-panel
\* run failed after that); both have finished and the markers are clear
C39_Witness ==
    /\ AllFinished
    /\ MarkersClear(packaging_state)
    /\ requests = 2
    /\ response.request = "generate_all_panels"
    /\ packaging_state.last_error = NoImageMessage

\* C40: a single-panel generation that fails leaves both texture maps as
\* stored, sets last_error to the failure message and clears in_progress and
\* generating_panel; one that succeeds changes the texture maps in exactly
\* one entry, the requested panel of the active shape, which becomes the new
\* texture, and clears last_error, in_progress and generating_panel.
C40_SinglePanelOutcome ==
    [][\A t \in PanelTaskIds :
          /\ \A error_message \in {NoImageMessage, PanelExceptionMessage} :
                PanelTextureFailed(t, error_message)
                => /\ TextureMaps(packaging_state') = TextureMaps(packaging_state)
                   /\ packaging_state'.last_error = error_message
                   /\ ~packaging_state'.in_progress
                   /\ packaging_state'.generating_panel = None
          /\ \A texture_url \in TextureUrls :
                PanelTextureReturned(t, texture_url)
                => LET panel_id == panel_tasks[t].panel_id
                       shape == CurrentShape(packaging_state)
                   IN /\ packaging_state'[shape].panel_textures
                            = DictSet(packaging_state[shape].panel_textures, panel_id,
                                      PanelTexture(panel_id, texture_url))
                      /\ packaging_state'[OtherShape(packaging_state.current_package_type)]
                               .panel_textures
                            = packaging_state[OtherShape(packaging_state.current_package_type)]
                                 .panel_textures
                      /\ packaging_state'.last_error = None
                      /\ ~packaging_state'.in_progress
                      /\ packaging_state'.generating_panel = None]_vars

\* a second generation of front failed with no image: front keeps the
\* texture of the first generation and last_error holds the message
C40_Witness ==
    /\ packaging_state.last_error = NoImageMessage
    /\ "front" \in DOMAIN panel_textures(packaging_state)
    /\ ~packaging_state.in_progress
    /\ \A t \in PanelTaskIds : panel_tasks[t].pc = "none"

(***************************************************************************)
(* C35: the busy guard of a start request is a check-then-set with no      *)
(* lock.  A start handler decides on the session it loaded, not on the     *)
(* session the store holds when it saves: when the loaded session is idle  *)
(* (and, for an edit, has a base product) the request is accepted, its     *)
(* session write replaces whatever the store holds and a pipeline run is   *)
(* added, even when another start request saved in_progress = true in      *)
(* between, so that two runs on the same session are then active at once;  *)
(* when the loaded session is busy the request is refused with 409 and     *)
(* nothing is written.                                                     *)
(***************************************************************************)
Passes(h) ==
    /\ ~h.state.in_progress
    /\ h.request = "start_edit" => (h.state.prompt # None /\ h.state.images # <<>>)

SavedFrom(h) ==
    /\ product_state'.in_progress
    /\ product_state'.latest_instruction = h.prompt
    /\ product_state'.mode = (IF h.request = "start_create" THEN "create" ELSE "edit")
    /\ product_state'.prompt =
           (IF h.request = "start_create" THEN h.prompt ELSE h.state.prompt)
    /\ product_state'.iterations =
           (IF h.request = "start_create" THEN <<>> ELSE h.state.iterations)

C35_CheckThenSet ==
    [][\A p \in Processes :
          StartSave(p) =>
              LET h == handlers[p] IN
              IF Passes(h)
              THEN /\ response'.code = 200
                   /\ SavedFrom(h)
                   /\ Cardinality(UnfinishedRuns') = Cardinality(UnfinishedRuns) + 1
              ELSE /\ response'.code = (IF h.state.in_progress THEN 409 ELSE 400)
                   /\ UNCHANGED <<product_state, product_status, background_tasks>>]_vars

\* two start requests that both loaded the idle session were both accepted:
\* two runs are unfinished, and the session holds the later request's write
C35_Witness ==
    /\ Cardinality(UnfinishedRuns) = 2
    /\ \A p \in Processes : handlers[p].pc = "idle" /\ handlers[p].served = 1
    /\ product_state.in_progress
    /\ response.code = 200
    /\ \E t \in UnfinishedRuns :
          background_tasks[t].instruction # product_state.latest_instruction
====
